---------------------------- MODULE Spec2Model ----------------------------
(***************************************************************************)
(* A model of the GeoBase command line launcher (src/GeoBaseMain.py).      *)
(*                                                                         *)
(* Spec         main(): the fail-fast block, the five filter stages, the   *)
(*              post-processing and the hand-off to a renderer.            *)
(* SpecDisplay  display() and display_quiet(), one step per written row.   *)
(* SpecFW       fixed_width() as a function of its arguments.              *)
(*                                                                         *)
(* Strings that are measured, cut or encoded are sequences of Unicode code *)
(* points; a UTF-8 byte is <<code point, index of the byte in its char>>.  *)
(* Keys, field names and tags are TLA+ strings.  Ratios are per mille,     *)
(* distances whole kilometres.                                             *)
(***************************************************************************)
EXTENDS Integers, Sequences, FiniteSets, TLC

(***************************************************************************)
(* Program constants                                                       *)
(***************************************************************************)
DEFAULT_NB_COL == 5

MIN_CHAR_COL == 20

MAX_CHAR_COL == 40

\* fixed_width: the width used when truncate is None
NO_TRUNCATE == 1000

\* getTermSize: the columns assumed when stty gives nothing
DEFAULT_TERM_COLS == 160

\* Python's None where the other values are strings
None == "None"

\* an optional value of another type: absent, or present
Nothing == <<>>

Some(x) == <<x>>

The(o) == o[1]

(***************************************************************************)
(* Generic helpers                                                         *)
(***************************************************************************)
Min(a, b) == IF a < b THEN a ELSE b

Max(a, b) == IF a > b THEN a ELSE b

Range(s) == {s[i] : i \in 1..Len(s)}

\* s[:n] of Python, n >= 0
Take(s, n) == SubSeq(s, 1, Min(n, Len(s)))

\* s[:-n] of Python, n > 0
DropLast(s, n) == SubSeq(s, 1, Len(s) - n)

\* n copies of c
Rep(n, c) == [i \in 1..n |-> c]

\* enumerate counting from one
EnumerateFromOne(s) == [i \in 1..Len(s) |-> <<i, s[i]>>]

\* enumerate(seq): zero-based index paired with each element
Enumerate(s) == [i \in 1..Len(s) |-> <<i - 1, s[i]>>]

(***************************************************************************)
(* The dataset collaborator (GeoBase), modelled from its contract          *)
(***************************************************************************)
\* iter(g): the keys of the dataset in iteration order
DataKeys == <<"ORY", "CDG", "LHR", "NCE">>

KeySet == Range(DataKeys)

\* a key the dataset does not hold
UnknownKey == "XXX"

\* k in g
Contains(k) == k \in KeySet

\* g.fields
fields == <<"__key__", "name", "country_code", "elev", "alt", "alt@raw", "__dup__">>

\* string comparison of keys, as sorted() compares the second tuple member
KeyRank(k) ==
    CASE k = "CDG" -> 1 [] k = "LHR" -> 2 [] k = "NCE" -> 3 [] k = "ORY" -> 4
      [] OTHER -> 5

\* the code points of a key
KeyChars(k) ==
    CASE k = "ORY" -> <<79, 82, 89>>
      [] k = "CDG" -> <<67, 68, 71>>
      [] k = "LHR" -> <<76, 72, 82>>
      [] k = "NCE" -> <<78, 67, 69>>
      [] OTHER -> <<88, 88, 88>>

FR == <<70, 82>>

GB == <<71, 66>>

\* a raw value longer than any truncation width, fixed_width's 1000 included
LongRaw == Rep(NO_TRUNCATE + 1, 97)

StrV(s) == [t |-> "str", v |-> s]

IntV(n) == [t |-> "int", v |-> n]

ListV(l) == [t |-> "list", v |-> l]

NameOf(k) ==
    CASE k = "ORY" -> <<80, 97, 114, 105, 115, 32, 79, 114, 108, 121, 32, 65,
                        105, 114, 112, 111, 114, 116>>
      [] k = "CDG" -> <<80, 97, 114, 105, 115, 32, 67, 104, 97, 114, 108, 101,
                        115, 32, 100, 101, 32, 71, 97, 117, 108, 108, 101, 32,
                        65, 105, 114, 112, 111, 114, 116>>
      [] k = "LHR" -> <<76, 111, 110, 100, 111, 110, 32, 72, 101, 97, 116, 104,
                        114, 111, 119, 32, 65, 105, 114, 112, 111, 114, 116>>
      [] OTHER     -> <<78, 105, 99, 101, 32, 67, 244, 116, 101, 32, 100, 39,
                        65, 122, 117, 114, 32, 65, 105, 114, 112, 111, 114, 116>>

\* g.get(k, f) for a key of the dataset: a string, a number or a list of strings
Get(k, f) ==
    CASE f = "__key__"      -> StrV(KeyChars(k))
      [] f = "name"         -> StrV(NameOf(k))
      [] f = "country_code" -> StrV(IF k = "LHR" THEN GB ELSE FR)
      [] f = "elev"         -> IntV(CASE k = "ORY" -> 89 [] k = "CDG" -> 119
                                      [] k = "LHR" -> 25 [] OTHER -> 4)
      [] f = "alt"          -> ListV(IF k = "CDG" THEN <<<<82, 111, 105, 115, 115, 121>>,
                                                        <<80, 97, 114, 105, 115>>>>
                                                  ELSE <<>>)
      [] f = "alt@raw"      -> StrV(IF k = "CDG" THEN LongRaw ELSE <<>>)
      [] OTHER              -> ListV(IF k = "ORY" THEN <<KeyChars("CDG")>> ELSE <<>>)

\* the decimal digits of a natural number, as code points
RECURSIVE Digits(_)
Digits(n) == IF n < 10 THEN <<48 + n>> ELSE Digits(n \div 10) \o <<48 + (n % 10)>>

\* ', '.join of quoted members, the inside of Python's str(list)
RECURSIVE JoinQuoted(_)
JoinQuoted(l) ==
    IF l = <<>> THEN <<>>
    ELSE <<39>> \o Head(l) \o <<39>>
         \o (IF Tail(l) = <<>> THEN <<>> ELSE <<44, 32>> \o JoinQuoted(Tail(l)))

\* str(v) of Python 2 for the three value types
StrOf(val) ==
    CASE val.t = "str" -> val.v
      [] val.t = "int" -> Digits(val.v)
      [] OTHER         -> <<91>> \o JoinQuoted(val.v) \o <<93>>

\* g.getLocation(k): NCE carries no location
Location(k) ==
    CASE k = "ORY" -> Some(<<48, 2>>)
      [] k = "CDG" -> Some(<<49, 2>>)
      [] k = "LHR" -> Some(<<51, 0>>)
      [] OTHER     -> Nothing

Abs(x) == IF x < 0 THEN -x ELSE x

\* the distance in km the backend reports between two coordinates
Dist(p, q) == 100 * (Abs(p[1] - q[1]) + Abs(p[2] - q[2]))

\* keys a geographic search can rank: in the dataset and located
Located(k) == Contains(k) /\ Location(k) # Nothing

\* rows ordered as Python orders (number, key) tuples
RowLeq(a, b) == a[1] < b[1] \/ (a[1] = b[1] /\ KeyRank(a[2]) <= KeyRank(b[2]))

RECURSIVE InsertRow(_, _)
InsertRow(r, s) ==
    IF s = <<>> THEN <<r>>
    ELSE IF RowLeq(r, Head(s)) THEN <<r>> \o s
    ELSE <<Head(s)>> \o InsertRow(r, Tail(s))

\* sorted(rows)
RECURSIVE Sorted(_)
Sorted(s) == IF s = <<>> THEN <<>> ELSE InsertRow(Head(s), Sorted(Tail(s)))

\* rows by descending first member, ties in key order
RECURSIVE SortedDesc(_)
SortedDesc(s) ==
    IF s = <<>> THEN <<>>
    ELSE LET neg == [i \in 1..Len(s) |-> <<0 - s[i][1], s[i][2]>>]
             srt == Sorted(neg)
         IN  [i \in 1..Len(srt) |-> <<0 - srt[i][1], srt[i][2]>>]

\* textSearch(query, format, candidateKeys): the ranked matches of the one
\* query modelled, restricted to the candidates
TrepRanked == <<<<900, "CDG">>, <<750, "ORY">>>>

trepGet(from_keys) == SelectSeq(TrepRanked, LAMBDA r : r[2] \in Range(from_keys))

\* one candidate of exactMatch: kept when its string form equals the value,
\* or differs from it under reverse; a key without the property differs
ExactKeeps(k, prop, val, reverse) ==
    LET eq == Contains(k) /\ StrOf(Get(k, prop)) = val
    IN  IF reverse THEN ~eq ELSE eq

\* exactMatch(property, value, reverse, candidateKeys), force_str = True
getKeysWhere(prop, val, from_keys, reverse) ==
    SelectSeq(from_keys, LAMBDA k : ExactKeeps(k, prop, val, reverse))

\* findNear(point, radius, useIndex, candidateKeys): (distance, key) in
\* candidate order
findNearPoint(coords, radius, from_keys) ==
    LET near == SelectSeq(from_keys,
                    LAMBDA k : Located(k) /\ Dist(coords, The(Location(k))) <= radius)
    IN  [i \in 1..Len(near) |-> <<Dist(coords, The(Location(near[i]))), near[i]>>]

\* findClosest(point, n, useIndex, candidateKeys): the n nearest, ascending
findClosestFromPoint(coords, N, from_keys) ==
    LET loc == SelectSeq(from_keys, LAMBDA k : Located(k))
    IN  Take(Sorted([i \in 1..Len(loc) |-> <<Dist(coords, The(Location(loc[i]))), loc[i]>>]), N)

\* the match ratio (per mille) of the one fuzzy query modelled
FuzzyRatio(k) ==
    CASE k = "ORY" -> 1000 [] k = "CDG" -> 900 [] k = "NCE" -> 860 [] OTHER -> 300

\* fuzzyMatch(query, property, minRatio, candidateKeys): descending ratio
fuzzyGet(min_match, from_keys) ==
    LET hit == SelectSeq(from_keys, LAMBDA k : Contains(k) /\ FuzzyRatio(k) >= min_match)
    IN  SortedDesc([i \in 1..Len(hit) |-> <<FuzzyRatio(hit[i]), hit[i]>>])

(***************************************************************************)
(* scan_coords                                                             *)
(***************************************************************************)
\* s.strip('()') on the left
RECURSIVE LStrip(_)
LStrip(s) == IF s # <<>> /\ Head(s) \in {40, 41} THEN LStrip(Tail(s)) ELSE s

\* s.strip('()') on the right
RECURSIVE RStrip(_)
RStrip(s) ==
    IF s # <<>> /\ s[Len(s)] \in {40, 41} THEN RStrip(DropLast(s, 1)) ELSE s

Strip(s) == RStrip(LStrip(s))

\* s.split(','): always at least one part
RECURSIVE Split(_)
Split(s) ==
    IF \A i \in 1..Len(s) : s[i] # 44 THEN <<s>>
    ELSE LET i == CHOOSE j \in 1..Len(s) : s[j] = 44 /\ \A m \in 1..(j - 1) : s[m] # 44
         IN  <<SubSeq(s, 1, i - 1)>> \o Split(SubSeq(s, i + 1, Len(s)))

\* surrounding blanks are accepted by float()
RECURSIVE Trim(_)
Trim(s) ==
    IF s # <<>> /\ Head(s) = 32 THEN Trim(Tail(s))
    ELSE IF s # <<>> /\ s[Len(s)] = 32 THEN Trim(DropLast(s, 1))
    ELSE s

\* float(l) succeeds: the part of float's grammar the tokens use, whole numbers
IsFloat(l) == LET t == Trim(l) IN t # <<>> /\ \A i \in 1..Len(t) : t[i] \in 48..57

RECURSIVE DigitsVal(_)
DigitsVal(t) == IF t = <<>> THEN 0 ELSE 10 * DigitsVal(DropLast(t, 1)) + (t[Len(t)] - 48)

\* float(l)
FloatOf(l) == DigitsVal(Trim(l))

\* u_input in geob
TokenIsKey(u_input) == \E k \in KeySet : KeyChars(k) = u_input

TokenKey(u_input) == CHOOSE k \in KeySet : KeyChars(k) = u_input

\* scan_coords without the check on the number of coordinates
scan_coords_any_count(u_input) ==
    LET parts == Split(Strip(u_input))
    IN  IF \A i \in 1..Len(parts) : IsFloat(parts[i])
        THEN IF Len(parts) < 2
             THEN [exit |-> "geocode_format", asked |-> <<>>]
             ELSE [exit |-> None, asked |-> <<>>,
                   coords |-> <<FloatOf(parts[1]), FloatOf(parts[2])>>]
        ELSE IF ~TokenIsKey(u_input)
             THEN [exit |-> "key", asked |-> <<"contains">>]
             ELSE IF Location(TokenKey(u_input)) = Nothing
                  THEN [exit |-> "geocode_unknown", asked |-> <<"contains", "getLocation">>]
                  ELSE [exit |-> None, asked |-> <<"contains", "getLocation">>,
                        coords |-> The(Location(TokenKey(u_input)))]

\* scan_coords(u_input, geob, verbose): the coordinates, or the error it exits
\* on; asked lists the lookups made in the dataset
scan_coords(u_input) ==
    LET parts == Split(Strip(u_input))
    IN  IF \A i \in 1..Len(parts) : IsFloat(parts[i])
        THEN IF Len(parts) # 2
             THEN [exit |-> "geocode_format", asked |-> <<>>]
             ELSE [exit |-> None, asked |-> <<>>,
                   coords |-> <<FloatOf(parts[1]), FloatOf(parts[2])>>]
        ELSE IF ~TokenIsKey(u_input)
             THEN [exit |-> "key", asked |-> <<"contains">>]
             ELSE IF Location(TokenKey(u_input)) = Nothing
                  THEN [exit |-> "geocode_unknown", asked |-> <<"contains", "getLocation">>]
                  ELSE [exit |-> None, asked |-> <<"contains", "getLocation">>,
                        coords |-> The(Location(TokenKey(u_input)))]

\* the geocode arguments tried: "48,2" "(50, 1)" "1,2,3" "48" "ORY" "NCE" "XXX" "(ORY)"
Tokens ==
    { <<52, 56, 44, 50>>, <<40, 53, 48, 44, 32, 49, 41>>, <<49, 44, 50, 44, 51>>,
      <<52, 56>>, KeyChars("ORY"), KeyChars("NCE"), KeyChars(UnknownKey),
      <<40>> \o KeyChars("ORY") \o <<41>> }

(***************************************************************************)
(* State                                                                   *)
(***************************************************************************)
VARIABLES
    env,               \* $BACKGROUND_COLOR and whether GeoBase is in $PATH
    BACKGROUND_COLOR,  \* module global, set at import
    ENV_WARNINGS,      \* module global, set at import
    pc,                \* where main() stands
    args,              \* the parsed command line, as far as main has read it
    g,                 \* the capabilities of the dataset loaded
    res,               \* intermediate results: rows (relevance, key)
    last,              \* last filter applied
    calls,             \* the backend calls made by the filter stages, in order
    err,               \* the error() or warn()+exit that ended the run
    stderr,            \* keys warned about by warn('key', ...)
    exitCode,          \* exit status once the process has ended
    rendered,          \* the renderer called and what it was handed
    printed            \* environment warnings printed by this run

mvars == <<env, BACKGROUND_COLOR, ENV_WARNINGS, pc, args, g, res, last, calls,
           err, stderr, exitCode, rendered, printed>>

\* one call of display() or display_quiet()
VARIABLES
    d_in,              \* the arguments, the terminal width and the background
    d_pc,              \* where the renderer stands
    d_show_wo_omit,    \* final shown headers
    d_lim,             \* column width
    d_truncate,        \* truncation width, or None
    d_c,               \* the RotatingColors instance: palette and cursor
    d_i,               \* rows (display) or result lines (display_quiet) written
    d_out              \* what was written to stdout

dvars == <<d_in, d_pc, d_show_wo_omit, d_lim, d_truncate, d_c, d_i, d_out>>

\* one call of fixed_width()
VARIABLES
    fw_in,             \* s, col, lim, truncate
    fw_pc,
    fw_out             \* the coloured cell returned

fvars == <<fw_in, fw_pc, fw_out>>

\* one call of scan_coords()
VARIABLES
    sc_in,             \* u_input
    sc_pc,
    sc_out             \* the coordinates returned or the error, the exit status
                       \* and the lookups made in the dataset

svars == <<sc_in, sc_pc, sc_out>>

(***************************************************************************)
(* Module import: BACKGROUND_COLOR and ENV_WARNINGS                        *)
(***************************************************************************)
AcceptedBackgrounds == {"black", "white"}

EnvValues == {None, "black", "white", "orange"}

\* BACKGROUND_COLOR after the import-time check
ImportBackgroundBuggy(e) == e.bg

ImportBackground(e) == IF e.bg \notin AcceptedBackgrounds THEN "black" ELSE e.bg

\* ENV_WARNINGS after import: one tag per message appended
ImportWarnings(e) ==
    LET bgw == IF e.bg \notin AcceptedBackgrounds THEN <<"background">> ELSE <<>>
        pw  == bgw \o (IF ~e.path THEN <<"path">> ELSE <<>>)
    IN  IF pw # <<>> THEN pw \o <<"zsh">> ELSE pw

\* RotatingColors.__init__: the palette, or the ValueError it raises
RotatingColors(background) ==
    CASE background = "black" ->
           [raised |-> None, availables |-> <<<<"cyan", None>>, <<"white", "on_grey">>>>]
      [] background = "white" ->
           [raised |-> None, availables |-> <<<<"grey", None>>, <<"cyan", "on_white">>>>]
      [] OTHER ->
           [raised |-> "ValueError", availables |-> <<>>]

(***************************************************************************)
(* main(): arguments                                                       *)
(***************************************************************************)
StageOrder == <<"trep", "exact", "near", "closest", "fuzzy">>

\* positional keys: none (all data), or explicit lists with an unknown key
\* and with repeats
KeyLists ==
    { <<>>, <<"LHR", "XXX", "ORY", "CDG">>,
      <<"ORY", "CDG", "LHR", "NCE", "ORY", "CDG">> }

Datasets ==
    { [hasTrep |-> TRUE,  hasGeo |-> TRUE],
      [hasTrep |-> FALSE, hasGeo |-> TRUE],
      [hasTrep |-> TRUE,  hasGeo |-> FALSE] }

ShowOmit ==
    { [show |-> <<>>,        omit |-> <<>>],
      [show |-> <<"name">>,  omit |-> <<"__ref__">>],
      [show |-> <<"bogus">>, omit |-> <<>>],
      [show |-> <<>>,        omit |-> <<"nope">>] }

\* --exact-property with the --exact value tried with it
ExactQueries ==
    { [prop |-> "country_code", val |-> FR],
      [prop |-> "elev",         val |-> <<56, 57>>],
      [prop |-> "bogus",        val |-> FR] }

MaxClosest == 2

MaxLimit == 2

\* argparse defaults of the options main reads later
ArgDefaults ==
    [exact_property |-> "__key__", exact_value |-> <<>>, reverse |-> FALSE,
     fuzzy_property |-> "name", show |-> <<>>, omit |-> <<>>,
     closest_limit |-> 10, limit |-> Nothing]

(***************************************************************************)
(* main(): the fail-fast block                                             *)
(***************************************************************************)
\* the FAILING block without its geocode support check
FailingErrorNoGeo(a, gg) ==
    LET bad == SelectSeq(a.show \o a.omit,
                         LAMBDA f : f \notin Range(<<"__ref__">> \o fields))
    IN  CASE a.trep /\ ~gg.hasTrep                          -> "trep_support"
          [] a.exact /\ a.exact_property \notin Range(fields) -> "property"
          [] a.fuzzy /\ a.fuzzy_property \notin Range(fields) -> "property"
          [] bad # <<>>                                     -> "field"
          [] OTHER                                          -> None

\* the first error() of the FAILING block, or None
FailingError(a, gg) ==
    LET bad == SelectSeq(a.show \o a.omit,
                         LAMBDA f : f \notin Range(<<"__ref__">> \o fields))
    IN  CASE a.trep /\ ~gg.hasTrep                          -> "trep_support"
          [] (a.near \/ a.closest) /\ ~gg.hasGeo            -> "geocode_support"
          [] a.exact /\ a.exact_property \notin Range(fields) -> "property"
          [] a.fuzzy /\ a.fuzzy_property \notin Range(fields) -> "property"
          [] bad # <<>>                                     -> "field"
          [] OTHER                                          -> None

(***************************************************************************)
(* main(): the pipeline                                                    *)
(***************************************************************************)
\* ex_keys with the bug of handing every stage the keys main started from
ex_keys_initial(r) == IF args.keys # <<>> THEN args.keys ELSE DataKeys

\* ex_keys with the bug of dropping the candidates: every stage searches all data
ex_keys_all(r) == DataKeys

\* ex_keys: keeping only keys in intermediate search
ex_keys(r) == [i \in 1..Len(r) |-> r[i][2]]

\* the reference type with exact taken for a scoring filter
ref_type_exact_scored(l) ==
    IF l \in {"near", "closest"} THEN "distance"
    ELSE IF l \in {"trep", "fuzzy", "exact"} THEN "percentage"
    ELSE "index"

\* __ref__ may be different thing depending on the last filter
ref_type(l) ==
    IF l \in {"near", "closest"} THEN "distance"
    ELSE IF l \in {"trep", "fuzzy"} THEN "percentage"
    ELSE "index"

\* removing unknown keys, with the bug of keeping them
KnownRowsKeepAll(r) == r

\* removing unknown keys
KnownRows(r) == SelectSeq(r, LAMBDA row : Contains(row[2]))

\* the keys warn('key', ...) is called with, in order
UnknownWarned(r) ==
    LET u == SelectSeq(r, LAMBDA row : ~Contains(row[2]))
    IN  [i \in 1..Len(u) |-> KeyChars(u[i][2])]

\* limit as main derives it from --limit and --quiet
LimitOf(a) ==
    IF a.limit = Nothing
    THEN IF a.quiet THEN Nothing ELSE Some(DEFAULT_NB_COL)
    ELSE a.limit

\* keeping only "limit" first results: res[:limit], where a negative limit
\* counts from the end of the list
Limited(r, limit) ==
    IF limit = Nothing THEN r
    ELSE IF The(limit) >= 0 THEN Take(r, The(limit))
    ELSE SubSeq(r, 1, Max(0, Len(r) + The(limit)))

\* highlighting some rows
Important(a) ==
    {"__key__"} \cup (IF a.exact THEN {a.exact_property} ELSE {})
                \cup (IF a.fuzzy THEN {a.fuzzy_property} ELSE {})

Exit(e) ==
    /\ err' = e
    /\ exitCode' = Some(1)
    /\ pc' = "exit"

Ran(stage, from_keys, out, next) ==
    /\ res' = out
    /\ last' = stage
    /\ calls' = Append(calls, [stage |-> stage, from_keys |-> from_keys, out |-> out])
    /\ pc' = next

MainInit ==
    /\ env \in [bg : EnvValues, path : BOOLEAN]
    /\ BACKGROUND_COLOR = ImportBackground(env)
    /\ ENV_WARNINGS = ImportWarnings(env)
    /\ pc = "start"
    /\ args = Nothing
    /\ g = Nothing
    /\ res = <<>>
    /\ last = None
    /\ calls = <<>>
    /\ err = None
    /\ stderr = <<>>
    /\ exitCode = Nothing
    /\ rendered = Nothing
    /\ printed = <<>>

\* handle_args and the loading of the dataset
HandleArgs ==
    /\ pc = "start"
    /\ \E t, e, n, c, f, q \in BOOLEAN, ks \in KeyLists, gg \in Datasets :
          /\ args' = [trep |-> t, exact |-> e, near |-> n, closest |-> c, fuzzy |-> f,
                      quiet |-> q, keys |-> ks] @@ ArgDefaults
          /\ g' = gg
    /\ pc' = "failing"
    /\ UNCHANGED <<env, BACKGROUND_COLOR, ENV_WARNINGS, res, last, calls, err,
                   stderr, exitCode, rendered, printed>>

\* the FAILING block; when nothing fails, the start of MAIN: res = enumerate(...)
Failing ==
    /\ pc = "failing"
    /\ \E q \in (IF args.exact THEN ExactQueries ELSE {[prop |-> "__key__", val |-> <<>>]}),
          fp \in (IF args.fuzzy THEN {"name", "bogus"} ELSE {"name"}),
          so \in ShowOmit :
          LET a == [args EXCEPT !.exact_property = q.prop, !.exact_value = q.val,
                                !.fuzzy_property = fp, !.show = so.show,
                                !.omit = so.omit]
              e == FailingError(a, g)
          IN  /\ args' = a
              /\ IF e # None
                 THEN Exit(e) /\ UNCHANGED res
                 ELSE /\ res' = Enumerate(IF a.keys # <<>> THEN a.keys ELSE DataKeys)
                      /\ pc' = "trep"
                      /\ UNCHANGED <<err, exitCode>>
    /\ UNCHANGED <<env, BACKGROUND_COLOR, ENV_WARNINGS, g, last, calls, stderr,
                   rendered, printed>>

TrepStage ==
    /\ pc = "trep"
    /\ IF args.trep
       THEN Ran("trep", ex_keys(res), trepGet(ex_keys(res)), "exact")
       ELSE pc' = "exact" /\ UNCHANGED <<res, last, calls>>
    /\ UNCHANGED <<env, BACKGROUND_COLOR, ENV_WARNINGS, args, g, err, stderr,
                   exitCode, rendered, printed>>

ExactStage ==
    /\ pc = "exact"
    /\ IF args.exact
       THEN \E rev \in BOOLEAN :
               /\ args' = [args EXCEPT !.reverse = rev]
               /\ Ran("exact", ex_keys(res),
                      Enumerate(getKeysWhere(args.exact_property, args.exact_value,
                                             ex_keys(res), rev)),
                      "near")
       ELSE pc' = "near" /\ UNCHANGED <<args, res, last, calls>>
    /\ UNCHANGED <<env, BACKGROUND_COLOR, ENV_WARNINGS, g, err, stderr, exitCode,
                   rendered, printed>>

\* scan_coords ending the run: warn('key') then exit(1), or error()
ScanExit(sc, u_input) ==
    /\ Exit(sc.exit)
    /\ stderr' = IF sc.exit = "key" THEN Append(stderr, u_input) ELSE stderr
    /\ UNCHANGED <<res, last, calls>>

NearStage ==
    /\ pc = "near"
    /\ IF args.near
       THEN \E u_input \in Tokens, near_limit \in {100, 300} :
               LET sc == scan_coords(u_input)
               IN  IF sc.exit # None
                   THEN ScanExit(sc, u_input)
                   ELSE /\ Ran("near", ex_keys(res),
                               Sorted(findNearPoint(sc.coords, near_limit, ex_keys(res))),
                               "closest")
                        /\ UNCHANGED <<err, stderr, exitCode>>
       ELSE pc' = "closest" /\ UNCHANGED <<res, last, calls, err, stderr, exitCode>>
    /\ UNCHANGED <<env, BACKGROUND_COLOR, ENV_WARNINGS, args, g, rendered, printed>>

ClosestStage ==
    /\ pc = "closest"
    /\ IF args.closest
       THEN \E u_input \in Tokens, N \in 1..MaxClosest :
               LET sc == scan_coords(u_input)
               IN  /\ args' = [args EXCEPT !.closest_limit = N]
                   /\ IF sc.exit # None
                      THEN ScanExit(sc, u_input)
                      ELSE /\ Ran("closest", ex_keys(res),
                                  findClosestFromPoint(sc.coords, N, ex_keys(res)),
                                  "fuzzy")
                           /\ UNCHANGED <<err, stderr, exitCode>>
       ELSE pc' = "fuzzy" /\ UNCHANGED <<args, res, last, calls, err, stderr, exitCode>>
    /\ UNCHANGED <<env, BACKGROUND_COLOR, ENV_WARNINGS, g, rendered, printed>>

FuzzyStage ==
    /\ pc = "fuzzy"
    /\ IF args.fuzzy
       THEN \E fuzzy_limit \in {850, 950} :
               Ran("fuzzy", ex_keys(res), fuzzyGet(fuzzy_limit, ex_keys(res)), "post")
       ELSE pc' = "post" /\ UNCHANGED <<res, last, calls>>
    /\ UNCHANGED <<env, BACKGROUND_COLOR, ENV_WARNINGS, args, g, err, stderr,
                   exitCode, rendered, printed>>

\* DISPLAY, first half: unknown keys warned and removed, then the limit
PostProcess ==
    /\ pc = "post"
    /\ \E l \in {Nothing} \cup {Some(n) : n \in -1..MaxLimit} :
          /\ args' = [args EXCEPT !.limit = l]
          /\ stderr' = stderr \o UnknownWarned(res)
          /\ res' = Limited(KnownRows(res), LimitOf(args'))
    /\ pc' = "render"
    /\ UNCHANGED <<env, BACKGROUND_COLOR, ENV_WARNINGS, g, last, calls, err,
                   exitCode, rendered, printed>>

\* DISPLAY, second half: the renderer is called; in verbose mode the
\* environment warnings are printed after it
Render ==
    /\ pc = "render"
    /\ LET c == RotatingColors(BACKGROUND_COLOR)
           crash == ~args.quiet /\ res # <<>> /\ c.raised # None
       IN  /\ rendered' = Some([by |-> IF args.quiet THEN "display_quiet" ELSE "display",
                                list_of_things |-> res,
                                omit |-> Range(args.omit),
                                show |-> args.show,
                                important |-> IF args.quiet THEN {} ELSE Important(args),
                                ref_type |-> ref_type(last),
                                background |-> IF args.quiet THEN None
                                               ELSE BACKGROUND_COLOR])
           /\ IF crash
              THEN Exit(c.raised) /\ UNCHANGED printed
              ELSE /\ printed' = IF args.quiet THEN <<>> ELSE ENV_WARNINGS
                   /\ exitCode' = Some(0)
                   /\ pc' = "done"
                   /\ UNCHANGED err
    /\ UNCHANGED <<env, BACKGROUND_COLOR, ENV_WARNINGS, args, g, res, last, calls,
                   stderr>>

(***************************************************************************)
(* One call of scan_coords                                                 *)
(***************************************************************************)
MaxToken == 3

\* the characters tokens are made of: 4 , ( ) blank X
ScanChars == {52, 44, 40, 41, 32, 88}

\* every token of at most MaxToken of those characters, and the geocode
\* arguments of Tokens
ScanTokens == UNION {[1..m -> ScanChars] : m \in 0..MaxToken} \cup Tokens

ScanInit ==
    /\ sc_in \in {[u_input |-> u] : u \in ScanTokens}
    /\ sc_pc = "call"
    /\ sc_out = Nothing

\* scan_coords returns the coordinates, or ends the process through
\* warn('key') and exit(1), or through error()
ScanCoords ==
    /\ sc_pc = "call"
    /\ LET sc == scan_coords(sc_in.u_input)
       IN  IF sc.exit # None
           THEN /\ sc_out' = Some([raised |-> sc.exit, status |-> 1, asked |-> sc.asked])
                /\ sc_pc' = "exit"
           ELSE /\ sc_out' = Some([raised |-> None, coords |-> sc.coords,
                                   asked |-> sc.asked])
                /\ sc_pc' = "returned"
    /\ UNCHANGED sc_in

(***************************************************************************)
(* fixed_width                                                             *)
(***************************************************************************)
ELLIPSIS == 8230

SPACE == 32

\* bytes a code point takes in UTF-8
UTF8Len(c) == IF c < 128 THEN 1 ELSE IF c < 2048 THEN 2 ELSE IF c < 65536 THEN 3 ELSE 4

\* u.encode('utf8'): each character becomes its bytes, <<code point, index>>
RECURSIVE Encode(_)
Encode(ds) ==
    IF Len(ds) = 0 THEN <<>>
    ELSE IF Len(ds) = 1 THEN [j \in 1..UTF8Len(ds[1]) |-> <<ds[1], j>>]
    ELSE LET h == Len(ds) \div 2
         IN  Encode(SubSeq(ds, 1, h)) \o Encode(SubSeq(ds, h + 1, Len(ds)))

\* '%-<lim>s' % u: left-justified, padded with blanks to lim characters
PadTo(u, lim) == u \o Rep(Max(0, lim - Len(u)), SPACE)

\* fixed_width(s, col, lim, truncate): s is the decoded str(s); the result is
\* the byte string handed to colored() with its colour
fixed_width(s, col, lim, truncate) ==
    LET trunc == IF truncate = Nothing THEN NO_TRUNCATE ELSE The(truncate)
        ds    == s
        es    == Encode(PadTo(Take(ds, trunc), lim))
    IN  [text |-> IF Len(ds) > trunc
                  THEN DropLast(es, 2) \o Encode(<<ELLIPSIS, SPACE>>)
                  ELSE es,
         col  |-> col]

\* a byte string is valid UTF-8: every byte sits in a complete character
WellFormed(es) ==
    \A p \in 1..Len(es) :
        LET c == es[p][1]
            q == p - es[p][2] + 1
        IN  /\ q >= 1
            /\ q + UTF8Len(c) - 1 <= Len(es)
            /\ \A m \in 1..UTF8Len(c) : es[q + m - 1] = <<c, m>>

\* characters a terminal shows for a valid byte string
CharCount(es) == Cardinality({p \in 1..Len(es) : es[p][2] = 1})

IsPrefix(a, b) == Len(a) <= Len(b) /\ SubSeq(b, 1, Len(a)) = a

IsSuffix(a, b) == Len(a) <= Len(b) /\ SubSeq(b, Len(b) - Len(a) + 1, Len(b)) = a

MaxTail == 3

\* the characters the tried strings end in: a, e-acute, the euro sign
TailChars == {97, 233, 8364}

TailsOf(n) == UNION {[1..m -> TailChars] : m \in 0..n}

\* the strings tried: nothing or a run of ASCII two short of the narrowest
\* column, then up to MaxTail characters of one, two or three bytes
FWStrings == {Rep(p, 97) \o t : p \in {0, MIN_CHAR_COL - 2}, t \in TailsOf(MaxTail)}

FWInit ==
    /\ fw_in \in [s : FWStrings, col : {<<"cyan", None>>}, lim : {MIN_CHAR_COL},
                  truncate : {Nothing, Some(MIN_CHAR_COL)}]
    /\ fw_pc = "call"
    /\ fw_out = Nothing

FixedWidth ==
    /\ fw_pc = "call"
    /\ fw_out' = Some(fixed_width(fw_in.s, fw_in.col, fw_in.lim, fw_in.truncate))
    /\ fw_pc' = "returned"
    /\ UNCHANGED fw_in

\* C8: when the decoded value is longer than the truncation width, the cell
\* ends in the ellipsis marker and a space, is valid UTF-8 (no character is
\* cut), and is exactly lim characters wide.
C8_TruncationKeepsCharacters ==
    fw_pc = "returned" =>
        LET trunc == IF fw_in.truncate = Nothing THEN NO_TRUNCATE ELSE The(fw_in.truncate)
            cell  == The(fw_out).text
        IN  Len(fw_in.s) > trunc =>
                /\ IsSuffix(Encode(<<ELLIPSIS, SPACE>>), cell)
                /\ WellFormed(cell)
                /\ CharCount(cell) = fw_in.lim

(***************************************************************************)
(* display and display_quiet                                               *)
(***************************************************************************)
\* str(f) of a field name
FieldChars(f) ==
    CASE f = "__ref__"      -> <<95, 95, 114, 101, 102, 95, 95>>
      [] f = "__key__"      -> <<95, 95, 107, 101, 121, 95, 95>>
      [] f = "name"         -> <<110, 97, 109, 101>>
      [] f = "country_code" -> <<99, 111, 117, 110, 116, 114, 121, 95, 99, 111, 100, 101>>
      [] f = "elev"         -> <<101, 108, 101, 118>>
      [] f = "alt"          -> <<97, 108, 116>>
      [] f = "alt@raw"      -> <<97, 108, 116, 64, 114, 97, 119>>
      [] OTHER              -> <<95, 95, 100, 117, 112, 95, 95>>

\* '@raw'
RawSuffix == <<64, 114, 97, 119>>

\* '__'
SpecialPrefix == <<95, 95>>

\* n as exactly w decimal digits
RECURSIVE ZeroPad(_, _)
ZeroPad(n, w) == IF w = 0 THEN <<>> ELSE ZeroPad(n \div 10, w - 1) \o <<48 + (n % 10)>>

\* fmt_ref(ref, ref_type, no_symb): distances are whole km, ratios per mille
fmt_ref(ref, rt, no_symb) ==
    CASE rt = "distance" ->
           IF no_symb THEN Digits(ref) \o <<46, 48, 48, 48>>
           ELSE Digits(ref) \o <<46, 48, 48, 32, 107, 109>>
      [] rt = "percentage" ->
           IF no_symb THEN Digits(ref \div 1000) \o <<46>> \o ZeroPad(ref % 1000, 3)
           ELSE Digits(ref \div 10) \o <<46>> \o Digits(ref % 10) \o <<32, 37>>
      [] OTHER -> Digits(ref)

\* sep.join(parts)
RECURSIVE Join(_, _)
Join(parts, sep) ==
    IF parts = <<>> THEN <<>>
    ELSE IF Len(parts) = 1 THEN parts[1]
    ELSE parts[1] \o <<sep>> \o Join(Tail(parts), sep)

\* building final shown headers, with the bug of ignoring omit
show_wo_omit_keep(show, omit) == show

\* building final shown headers: [f for f in show if f not in omit]
show_wo_omit(show, omit) == SelectSeq(show, LAMBDA f : f \notin omit)

\* display's default show list
DefaultShow == <<"__ref__">> \o fields

\* display_quiet's default show list, with the bug of keeping the fields whose
\* raw version exists
QuietDefaultShowAll == <<"__ref__">> \o fields

\* display_quiet's default show list: fields whose raw version exists are removed
QuietDefaultShow ==
    SelectSeq(DefaultShow,
              LAMBDA f : FieldChars(f) \o RawSuffix
                             \notin {FieldChars(x) : x \in Range(DefaultShow)})

\* the column width display derives from the terminal width and n results
ColumnWidth(cols, n) == Min(MAX_CHAR_COL, Max(MIN_CHAR_COL, cols \div (n + 1)))

\* RotatingColors.get
get(c) == c.availables[c.current + 1]

\* RotatingColors.getRaw: only the foreground changes
getRaw(c) == <<"yellow", get(c)[2]>>

getEmph == <<"white", "on_blue">>

getHeader == <<"red", None>>

getSpecial == <<"magenta", None>>

\* RotatingColors.next without the return to the first colour
next_saturating(c) ==
    [c EXCEPT !.current = IF c.current + 1 = Len(c.availables) THEN c.current
                          ELSE c.current + 1]

\* RotatingColors.next
next(c) ==
    [c EXCEPT !.current = IF c.current + 1 = Len(c.availables) THEN 0 ELSE c.current + 1]

\* the colour display picks for the row of field f
RowColor(f, important, c) ==
    IF f \in important THEN getEmph
    ELSE IF f = "__ref__" THEN getHeader
    ELSE IF IsSuffix(RawSuffix, FieldChars(f)) THEN getRaw(c)
    ELSE IF IsPrefix(SpecialPrefix, FieldChars(f)) THEN getSpecial
    ELSE get(c)

\* the decoded text display puts in the cell of field f for the row (h, k)
CellValue(f, row, rt) ==
    IF f = "__ref__" THEN fmt_ref(row[1], rt, FALSE) ELSE StrOf(Get(row[2], f))

\* the text display_quiet puts in the column of field f for the row (h, k)
QuietValue(f, row, rt) ==
    IF f = "__ref__" THEN fmt_ref(row[1], rt, TRUE)
    ELSE LET v == Get(row[2], f)
         IN  IF IsPrefix(SpecialPrefix, FieldChars(f)) /\ v.t = "list"
             THEN Join(v.v, 47)
             ELSE StrOf(v)

MaxResults == 3

\* a result list of each reference type, as the stages produce them
RefBase(rt) ==
    CASE rt = "distance"   -> <<<<0, "ORY">>, <<100, "CDG">>, <<500, "LHR">>>>
      [] rt = "percentage" -> <<<<1000, "ORY">>, <<900, "CDG">>, <<860, "NCE">>>>
      [] OTHER             -> Enumerate(DataKeys)

\* the result lists rendered: every run of at most MaxResults rows of a base
ResultLists(rt) ==
    {SubSeq(RefBase(rt), p[1], p[2]) :
        p \in {q \in (1..Len(RefBase(rt))) \X (0..Len(RefBase(rt))) :
                  q[2] - q[1] < MaxResults}}

RefTypes == {"index", "distance", "percentage"}

\* stty's column count: narrow, medium, getTermSize's default
TermCols == {30, 100, DEFAULT_TERM_COLS}

ShowLists ==
    {<<>>, <<"name">>, <<"__ref__", "name">>, <<"name", "alt@raw", "__ref__">>,
     <<"alt", "alt@raw">>}

OmitSets == {{}, {"__ref__"}, {"name", "alt"}, {"alt@raw"}}

DisplayInit ==
    /\ \E rt \in RefTypes, l \in UNION {ResultLists(r) : r \in RefTypes},
          sh \in ShowLists, om \in OmitSets :
          /\ l \in ResultLists(rt)
          /\ \/ \E cols \in TermCols, imp \in {{"__key__"}, {"__key__", "name"}},
                   bg \in AcceptedBackgrounds :
                   d_in = [by |-> "display", list_of_things |-> l, omit |-> om,
                           show |-> sh, important |-> imp, ref_type |-> rt,
                           cols |-> cols, background |-> bg]
             \/ d_in = [by |-> "display_quiet", list_of_things |-> l, omit |-> om,
                        show |-> sh, important |-> {}, ref_type |-> rt,
                        cols |-> DEFAULT_TERM_COLS, background |-> None]
    /\ d_pc = "call"
    /\ d_show_wo_omit = <<>>
    /\ d_lim = 0
    /\ d_truncate = Nothing
    /\ d_c = Nothing
    /\ d_i = 0
    /\ d_out = <<>>

\* display() up to its loop: the notice for an empty list, else the shown
\* headers, the column width, the truncation width and the colour scheme
DisplayStart ==
    /\ d_pc = "call"
    /\ d_in.by = "display"
    /\ IF d_in.list_of_things = <<>>
       THEN /\ d_pc' = "no_elements"
            /\ UNCHANGED <<d_show_wo_omit, d_lim, d_truncate, d_c>>
       ELSE LET show == IF d_in.show = <<>> THEN DefaultShow ELSE d_in.show
                n    == Len(d_in.list_of_things)
                lim  == ColumnWidth(d_in.cols, n)
                c    == RotatingColors(d_in.background)
            IN  /\ d_show_wo_omit' = show_wo_omit(show, d_in.omit)
                /\ d_lim' = lim
                /\ d_truncate' = IF n = 1 THEN Nothing ELSE Some(lim)
                /\ d_c' = Some([availables |-> c.availables, current |-> 0])
                /\ d_pc' = IF c.raised # None THEN "raised"
                           ELSE IF d_show_wo_omit' = <<>> THEN "returned"
                           ELSE "rows"
    /\ UNCHANGED <<d_in, d_i, d_out>>

\* one turn of display()'s loop: the row of the next shown field
DisplayRow ==
    /\ d_pc = "rows"
    /\ LET f   == d_show_wo_omit[d_i + 1]
           c   == The(d_c)
           col == RowColor(f, d_in.important, c)
           l   == d_in.list_of_things
       IN  /\ d_c' = Some(next(c))
           /\ d_out' = Append(d_out,
                  [field |-> f,
                   name  |-> fixed_width(FieldChars(f), col, d_lim, d_truncate),
                   cells |-> [j \in 1..Len(l) |->
                                 fixed_width(CellValue(f, l[j], d_in.ref_type),
                                             col, d_lim, d_truncate)]])
    /\ d_i' = d_i + 1
    /\ d_pc' = IF d_i' = Len(d_show_wo_omit) THEN "returned" ELSE "rows"
    /\ UNCHANGED <<d_in, d_show_wo_omit, d_lim, d_truncate>>

\* display_quiet() up to its loop: the shown headers and the header line
QuietStart ==
    /\ d_pc = "call"
    /\ d_in.by = "display_quiet"
    /\ LET show == IF d_in.show = <<>> THEN QuietDefaultShow ELSE d_in.show
       IN  d_show_wo_omit' = show_wo_omit(show, d_in.omit)
    /\ d_out' = <<<<35>> \o Join([i \in 1..Len(d_show_wo_omit') |->
                                     FieldChars(d_show_wo_omit'[i])], 94)>>
    /\ d_pc' = IF d_in.list_of_things = <<>> THEN "returned" ELSE "lines"
    /\ UNCHANGED <<d_in, d_lim, d_truncate, d_c, d_i>>

\* one turn of display_quiet()'s loop: the line of the next result
QuietLine ==
    /\ d_pc = "lines"
    /\ LET row == d_in.list_of_things[d_i + 1]
       IN  d_out' = Append(d_out,
               Join([i \in 1..Len(d_show_wo_omit) |->
                        QuietValue(d_show_wo_omit[i], row, d_in.ref_type)], 94))
    /\ d_i' = d_i + 1
    /\ d_pc' = IF d_i' = Len(d_in.list_of_things) THEN "returned" ELSE "lines"
    /\ UNCHANGED <<d_in, d_show_wo_omit, d_lim, d_truncate, d_c>>

(***************************************************************************)
(* Properties of the renderers                                             *)
(***************************************************************************)
InDisplay == d_pc \in {"rows", "returned"} /\ d_in.by = "display"

Rendered == d_pc \in {"returned", "no_elements"}

\* C7: the column width is floor(cols / (n + 1)) clamped to [20, 40]; with
\* two results or more every cell is cut at that width; with exactly one
\* result every cell holds the full value, whatever its length.
C7_WidthAndSingleResult ==
    InDisplay =>
        LET l == d_in.list_of_things
            n == Len(l)
            w == d_in.cols \div (n + 1)
        IN  /\ d_lim = (IF w < MIN_CHAR_COL THEN MIN_CHAR_COL
                        ELSE IF w > MAX_CHAR_COL THEN MAX_CHAR_COL ELSE w)
            /\ n >= 2 => d_truncate = Some(d_lim)
            /\ \A r \in 1..Len(d_out), j \in 1..n :
                  LET v    == CellValue(d_out[r].field, l[j], d_in.ref_type)
                      cell == d_out[r].cells[j].text
                  IN  /\ n >= 2 /\ Len(v) > d_lim =>
                            ~IsPrefix(Encode(Take(v, d_lim + 1)), cell)
                      /\ n = 1 => IsPrefix(Encode(v), cell)

\* the fields a finished renderer has displayed, in order
ShownNames == d_show_wo_omit

\* columns of a line of display_quiet: one more than its separators (the
\* line of no field and the line of one empty value are both empty)
Columns(line) == 1 + Cardinality({p \in 1..Len(line) : line[p] = 94})

\* '#__ref__^name' and '0^Paris Orly Airport'
OrlyLines ==
    << <<35, 95, 95, 114, 101, 102, 95, 95, 94, 110, 97, 109, 101>>,
       <<48, 94, 80, 97, 114, 105, 115, 32, 79, 114, 108, 121, 32, 65, 105, 114,
         112, 111, 114, 116>> >>

\* what is written matches the shown headers: one table row per header when
\* there are results, or the header line and one column per header in each of
\* the n result lines
OnePerField ==
    IF d_in.by = "display"
    THEN /\ d_in.list_of_things = <<>> => d_out = <<>> /\ d_pc = "no_elements"
         /\ d_in.list_of_things # <<>> =>
               /\ Len(d_out) = Len(ShownNames)
               /\ \A i \in 1..Len(d_out) :
                     /\ d_out[i].field = ShownNames[i]
                     /\ Len(d_out[i].cells) = Len(d_in.list_of_things)
    ELSE /\ Len(d_out) = 1 + Len(d_in.list_of_things)
         /\ d_out[1] = <<35>> \o Join([i \in 1..Len(ShownNames) |->
                                          FieldChars(ShownNames[i])], 94)
         /\ \A i \in 2..Len(d_out) : Columns(d_out[i]) = Max(1, Len(ShownNames))

\* C9 as stated: __ref__ is the first displayed field unless it is omitted,
\* one row or column is written per displayed field, and ORY in quiet mode
\* with the field name only gives '#__ref__^name' and '0^Paris Orly Airport'.
C9_Original ==
    Rendered =>
        /\ ( /\ "__ref__" \notin d_in.omit
             /\ d_in.by = "display_quiet" \/ d_in.list_of_things # <<>> ) =>
              IF d_in.by = "display"
              THEN d_out # <<>> /\ d_out[1].field = "__ref__"
              ELSE IsPrefix(<<35>> \o FieldChars("__ref__"), d_out[1])
        /\ OnePerField
        /\ ( /\ d_in.by = "display_quiet"
             /\ d_in.list_of_things = <<<<0, "ORY">>>>
             /\ d_in.ref_type = "index"
             /\ d_in.show = <<"name">>
             /\ d_in.omit = {} ) => d_out = OrlyLines

\* C9 amended: the displayed fields are the non-omitted entries of the show
\* list in its order, so with an explicit show list __ref__ is displayed only
\* where the list names it; with no show list __ref__ is first unless omitted;
\* an omitted __ref__ is never displayed.  The table has one row per displayed
\* field when there are results and none otherwise; quiet output has one
\* column per displayed field.  ORY in quiet mode with show = __ref__, name
\* gives '#__ref__^name' and '0^Paris Orly Airport'.
C9_ShownFields ==
    Rendered =>
        LET written == d_in.by = "display_quiet" \/ d_in.list_of_things # <<>>
        IN  /\ written /\ d_in.show # <<>> =>
                  ShownNames = SelectSeq(d_in.show, LAMBDA f : f \notin d_in.omit)
            /\ written /\ d_in.show = <<>> /\ "__ref__" \notin d_in.omit =>
                  ShownNames # <<>> /\ ShownNames[1] = "__ref__"
            /\ "__ref__" \in d_in.omit => "__ref__" \notin Range(ShownNames)
            /\ OnePerField
            /\ ( /\ d_in.by = "display_quiet"
                 /\ d_in.list_of_things = <<<<0, "ORY">>>>
                 /\ d_in.ref_type = "index"
                 /\ d_in.show = <<"__ref__", "name">>
                 /\ d_in.omit = {} ) => d_out = OrlyLines

\* ORY alone in quiet mode with show = __ref__, name: the two lines are written
C9_Witness ==
    /\ d_pc = "returned"
    /\ d_in.by = "display_quiet"
    /\ d_in.list_of_things = <<<<0, "ORY">>>>
    /\ d_in.show = <<"__ref__", "name">>
    /\ d_in.omit = {}
    /\ d_out = OrlyLines

(***************************************************************************)
(* Specifications                                                          *)
(***************************************************************************)
vars == <<mvars, dvars, fvars, svars>>

MainIdle ==
    /\ env = Nothing /\ BACKGROUND_COLOR = None /\ ENV_WARNINGS = <<>>
    /\ pc = "idle" /\ args = Nothing /\ g = Nothing /\ res = <<>> /\ last = None
    /\ calls = <<>> /\ err = None /\ stderr = <<>> /\ exitCode = Nothing
    /\ rendered = Nothing /\ printed = <<>>

DisplayIdle ==
    /\ d_in = Nothing /\ d_pc = "idle" /\ d_show_wo_omit = <<>> /\ d_lim = 0
    /\ d_truncate = Nothing /\ d_c = Nothing /\ d_i = 0 /\ d_out = <<>>

FWIdle == fw_in = Nothing /\ fw_pc = "idle" /\ fw_out = Nothing

ScanIdle == sc_in = Nothing /\ sc_pc = "idle" /\ sc_out = Nothing

\* main()
Init == MainInit /\ DisplayIdle /\ FWIdle /\ ScanIdle

Next ==
    \/ HandleArgs /\ UNCHANGED <<dvars, fvars, svars>>
    \/ Failing /\ UNCHANGED <<dvars, fvars, svars>>
    \/ TrepStage /\ UNCHANGED <<dvars, fvars, svars>>
    \/ ExactStage /\ UNCHANGED <<dvars, fvars, svars>>
    \/ NearStage /\ UNCHANGED <<dvars, fvars, svars>>
    \/ ClosestStage /\ UNCHANGED <<dvars, fvars, svars>>
    \/ FuzzyStage /\ UNCHANGED <<dvars, fvars, svars>>
    \/ PostProcess /\ UNCHANGED <<dvars, fvars, svars>>
    \/ Render /\ UNCHANGED <<dvars, fvars, svars>>

Spec == Init /\ [][Next]_vars

\* fixed_width() on the strings of FWStrings
InitFW == FWInit /\ MainIdle /\ DisplayIdle /\ ScanIdle

NextFW == FixedWidth /\ UNCHANGED <<mvars, dvars, svars>>

SpecFW == InitFW /\ [][NextFW]_vars

\* display() and display_quiet() on the inputs of DisplayInit
InitDisplay == DisplayInit /\ MainIdle /\ FWIdle /\ ScanIdle

NextDisplay ==
    \/ DisplayStart /\ UNCHANGED <<mvars, fvars, svars>>
    \/ DisplayRow /\ UNCHANGED <<mvars, fvars, svars>>
    \/ QuietStart /\ UNCHANGED <<mvars, fvars, svars>>
    \/ QuietLine /\ UNCHANGED <<mvars, fvars, svars>>

SpecDisplay == InitDisplay /\ [][NextDisplay]_vars

\* scan_coords() on the tokens of ScanTokens
InitScan == ScanInit /\ MainIdle /\ DisplayIdle /\ FWIdle

NextScan == ScanCoords /\ UNCHANGED <<mvars, dvars, fvars>>

SpecScan == InitScan /\ [][NextScan]_vars

(***************************************************************************)
(* Properties of main()                                                    *)
(***************************************************************************)
StageIndex(st) == CHOOSE i \in 1..Len(StageOrder) : StageOrder[i] = st

\* the key list main starts from
InitialKeys == IF args.keys # <<>> THEN args.keys ELSE DataKeys

KeysOf(rows) == [i \in 1..Len(rows) |-> rows[i][2]]

\* the stages that have made their backend call
Executed == {calls[i].stage : i \in 1..Len(calls)}

\* the last stage that made its backend call, or None
LastExecuted == IF calls = <<>> THEN None ELSE calls[Len(calls)].stage

\* what post-processing receives: the last executed stage's output, or the
\* initial enumeration
StageOutput == IF calls = <<>> THEN Enumerate(InitialKeys) ELSE calls[Len(calls)].out

ArgsRead == pc \notin {"start", "failing"}

\* C1: the stages that execute are activated ones, they execute in the order
\* trep, exact, near, closest, fuzzy, each is handed exactly the keys of the
\* output of the stage executed just before it (the initial key list for the
\* first), and a run that completes has executed every activated stage.
C1_StageOrderAndCarry ==
    ArgsRead =>
        /\ \A i \in 1..Len(calls) :
              /\ args[calls[i].stage]
              /\ \A j \in 1..(i - 1) :
                    StageIndex(calls[j].stage) < StageIndex(calls[i].stage)
              /\ calls[i].from_keys =
                    IF i = 1 THEN InitialKeys ELSE KeysOf(calls[i - 1].out)
        /\ pc \in {"post", "render", "done"} =>
              Executed = {st \in Range(StageOrder) : args[st]}

\* exact then near both ran, and near was handed exact's survivors, which are
\* fewer than the keys main started from
C1_Witness ==
    /\ pc = "done"
    /\ \E i \in 1..Len(calls) :
          /\ i > 1
          /\ calls[i].stage = "near"
          /\ calls[i - 1].stage = "exact"
          /\ calls[i].from_keys # <<>>
          /\ Len(calls[i].from_keys) < Len(InitialKeys)

\* C2: the renderer is handed "distance" iff the last executed stage was near
\* or closest, "percentage" iff it was trep or fuzzy, "index" otherwise.
C2_RefTypeByLastStage ==
    rendered # Nothing =>
        LET rt == The(rendered).ref_type
        IN  /\ rt = "distance" <=> LastExecuted \in {"near", "closest"}
            /\ rt = "percentage" <=> LastExecuted \in {"trep", "fuzzy"}
            /\ rt = "index" <=> LastExecuted \in {None, "exact"}

\* exact ran last, after a scoring stage, and the rows are rendered as indexes
C2_Witness ==
    /\ rendered # Nothing
    /\ The(rendered).ref_type = "index"
    /\ Len(calls) = 2
    /\ calls[1].stage = "trep"
    /\ The(rendered).list_of_things # <<>>

\* an activated stage lacks its capability or its property, or a shown or
\* omitted field is unknown
FailFastCase ==
    \/ args.trep /\ ~g.hasTrep
    \/ (args.near \/ args.closest) /\ ~g.hasGeo
    \/ args.exact /\ args.exact_property \notin Range(fields)
    \/ args.fuzzy /\ args.fuzzy_property \notin Range(fields)
    \/ \E f \in Range(args.show \o args.omit) : f \notin {"__ref__"} \cup Range(fields)

FailFastErrors == {"trep_support", "geocode_support", "property", "field"}

\* C3: in each of those cases the run ends with exit status 1 on one of the
\* fail-fast errors and no stage has made a backend call; no run ends on such
\* an error after a stage was applied.
C3_FailFastBeforeStages ==
    /\ ArgsRead /\ FailFastCase =>
          /\ pc = "exit"
          /\ exitCode = Some(1)
          /\ err \in FailFastErrors
          /\ calls = <<>>
    /\ err \in FailFastErrors => calls = <<>> /\ exitCode = Some(1)

\* near is active on a dataset without geocoding and the run has exited
C3_Witness ==
    /\ pc = "exit"
    /\ err = "geocode_support"
    /\ args.exact /\ args.near
    /\ calls = <<>>

ResolutionErrors == {"key", "geocode_format", "geocode_unknown"}

\* C4: a run that ends on a resolution error of the near or closest argument
\* has run no filter stage, and ends with a non-zero exit.
C4_ResolutionBeforeStages ==
    err \in ResolutionErrors => calls = <<>> /\ exitCode = Some(1)

\* C5: once post-processing has run, every unknown key of the stage output has
\* been warned about, no row with an unknown key is left or handed to the
\* renderer, and the run completes with exit status 0: nothing but the
\* fail-fast and resolution errors ever ends a run.
C5_UnknownWarnedAndDropped ==
    /\ pc \in {"render", "done"} =>
          /\ \A i \in 1..Len(StageOutput) :
                ~Contains(StageOutput[i][2]) =>
                    KeyChars(StageOutput[i][2]) \in Range(stderr)
          /\ \A i \in 1..Len(res) : Contains(res[i][2])
    /\ rendered # Nothing =>
          \A i \in 1..Len(The(rendered).list_of_things) :
              Contains(The(rendered).list_of_things[i][2])
    /\ pc = "done" => exitCode = Some(0) /\ err = None
    /\ pc = "exit" => err \in FailFastErrors \cup ResolutionErrors

\* a stage handed on an unknown key, it was warned about, and the run completed
\* rendering the rows that remain
C5_Witness ==
    /\ pc = "done"
    /\ calls # <<>>
    /\ \E i \in 1..Len(StageOutput) : ~Contains(StageOutput[i][2])
    /\ stderr # <<>>
    /\ The(rendered).list_of_things # <<>>
    /\ exitCode = Some(0)

RowSatisfies(row, prop, val) == StrOf(Get(row[2], prop)) = val

\* C6 as stated: with exact and closest both active, at most N rows are
\* rendered and every one has str(P) == V.
C6_Original ==
    rendered # Nothing /\ args.exact /\ args.closest =>
        LET l == The(rendered).list_of_things
        IN  /\ Len(l) <= args.closest_limit
            /\ \A i \in 1..Len(l) : RowSatisfies(l[i], args.exact_property, args.exact_value)

\* C6 amended: with exact and closest both active at most N rows are rendered;
\* every one has str(P) == V when reverse is not set, and str(P) != V when it is.
C6_ExactThenClosest ==
    rendered # Nothing /\ args.exact /\ args.closest =>
        LET l == The(rendered).list_of_things
        IN  /\ Len(l) <= args.closest_limit
            /\ \A i \in 1..Len(l) :
                  RowSatisfies(l[i], args.exact_property, args.exact_value) <=> ~args.reverse

\* country_code == FR with closest-2, no other stage: two French rows are
\* rendered although a nearer British one was among the initial keys
C6_Witness ==
    /\ rendered # Nothing
    /\ Executed = {"exact", "closest"}
    /\ ~args.reverse
    /\ args.exact_property = "country_code"
    /\ "LHR" \in Range(InitialKeys)
    /\ Len(The(rendered).list_of_things) = args.closest_limit
    /\ args.closest_limit = MaxClosest

\* C10 as stated: with any other background setting the run goes on with
\* 'black', no ValueError is raised by the colour scheme, and the warning is
\* printed by every completed run, quiet or not.
C10_Original ==
    env.bg \notin AcceptedBackgrounds =>
        /\ BACKGROUND_COLOR = "black"
        /\ err # "ValueError"
        /\ pc = "done" => "background" \in Range(printed)

\* C10 amended: with any other background setting the run goes on with
\* 'black', no ValueError is raised by the colour scheme, the warning is
\* recorded at import, and it is printed by exactly the runs that complete in
\* verbose (non-quiet) mode; quiet runs print no environment warning.
C10_BackgroundDefault ==
    /\ env.bg \notin AcceptedBackgrounds =>
          /\ BACKGROUND_COLOR = "black"
          /\ err # "ValueError"
          /\ "background" \in Range(ENV_WARNINGS)
          /\ rendered # Nothing /\ ~args.quiet => The(rendered).background = "black"
          /\ pc = "done" => ("background" \in Range(printed) <=> ~args.quiet)
    /\ pc # "done" => printed = <<>>

\* background "orange", verbose mode: a non-empty table was rendered on the
\* black palette and the warning printed
C10_Witness ==
    /\ pc = "done"
    /\ env.bg = "orange"
    /\ ~args.quiet
    /\ The(rendered).list_of_things # <<>>
    /\ The(rendered).background = "black"
    /\ "background" \in Range(printed)

\* the default the help of --limit announces
HELP_DEFAULT_LIMIT == 4

\* what is left of the stage output once the unknown keys are removed
Surviving == SelectSeq(StageOutput, LAMBDA row : Contains(row[2]))

\* C11: the number of rows rendered never exceeds the limit: at most L with an
\* explicit --limit L, at most 4 in verbose mode when no limit is given, and
\* every surviving row in quiet mode when no limit is given.
C11_RowsWithinLimit ==
    rendered # Nothing =>
        LET l == The(rendered).list_of_things
        IN  /\ args.limit # Nothing => Len(l) <= The(args.limit)
            /\ args.limit = Nothing /\ ~args.quiet => Len(l) <= HELP_DEFAULT_LIMIT
            /\ args.limit = Nothing /\ args.quiet => l = Surviving

(***************************************************************************)
(* Properties of scan_coords                                               *)
(***************************************************************************)
\* the token without the parentheses around it, cut at its commas
ScanParts == Split(Strip(sc_in.u_input))

AllFloats == \A i \in 1..Len(ScanParts) : IsFloat(ScanParts[i])

\* C12: a call of scan_coords ends in exactly one of four ways. When every
\* part of the token parses as a float it returns the pair of the two parts,
\* or fails with geocode_format when the parts are not two, and the dataset
\* is not consulted; otherwise it fails with the unknown-key error when the
\* token is not a key of the dataset, with geocode_unknown when the key has no
\* location, and else returns the location of the key. The failures end the
\* process with a non-zero status.
C12_ScanCoordsOutcomes ==
    sc_pc \in {"returned", "exit"} =>
        LET out == The(sc_out)
            u   == sc_in.u_input
        IN  /\ sc_pc = "exit" <=> out.raised # None
            /\ sc_pc = "exit" => out.status # 0
            /\ AllFloats /\ Len(ScanParts) = 2 =>
                  /\ out.raised = None
                  /\ out.coords = <<FloatOf(ScanParts[1]), FloatOf(ScanParts[2])>>
                  /\ out.asked = <<>>
            /\ AllFloats /\ Len(ScanParts) # 2 =>
                  out.raised = "geocode_format" /\ out.asked = <<>>
            /\ ~AllFloats /\ ~TokenIsKey(u) => out.raised = "key"
            /\ ~AllFloats /\ TokenIsKey(u) =>
                  IF Location(TokenKey(u)) = Nothing
                  THEN out.raised = "geocode_unknown"
                  ELSE out.raised = None /\ out.coords = The(Location(TokenKey(u)))

\* the token 1,2,3 was refused as geocode_format without a lookup in the dataset
C12_Witness ==
    /\ sc_pc = "exit"
    /\ sc_in.u_input = <<49, 44, 50, 44, 51>>
    /\ The(sc_out).raised = "geocode_format"
    /\ The(sc_out).asked = <<>>

(***************************************************************************)
(* Properties of the colour rotation                                       *)
(***************************************************************************)
\* a field row that takes no override colour
Ordinary(f) ==
    /\ f \notin d_in.important
    /\ f # "__ref__"
    /\ ~IsSuffix(RawSuffix, FieldChars(f))
    /\ ~IsPrefix(SpecialPrefix, FieldChars(f))

\* C13: during one call of display the colour cursor is always a valid index
\* into the palette and equals the number of field rows displayed so far
\* modulo the palette length: it advances once per row, override colour or
\* not, is never reset and wraps to the first pair after the last. Hence the
\* k-th displayed row (0-based), when it is an ordinary field, has the colour
\* of palette pair k mod (palette length).
C13_CursorOncePerRow ==
    InDisplay =>
        LET c == The(d_c)
            n == Len(c.availables)
        IN  /\ c.current \in 0..(n - 1)
            /\ Len(d_out) = d_i
            /\ c.current = d_i % n
            /\ \A k \in 0..(Len(d_out) - 1) :
                  Ordinary(d_out[k + 1].field) =>
                      /\ d_out[k + 1].name.col = c.availables[(k % n) + 1]
                      /\ \A j \in 1..Len(d_out[k + 1].cells) :
                            d_out[k + 1].cells[j].col = c.availables[(k % n) + 1]

\* the default table was displayed: after the rows of __ref__ and of the
\* emphasised __key__ and name, the row of country_code, the fourth, has the
\* second colour of the palette and the cursor has wrapped several times
C13_Witness ==
    /\ InDisplay
    /\ d_pc = "returned"
    /\ Len(d_out) = Len(DefaultShow)
    /\ d_out[1].field = "__ref__"
    /\ "name" \in d_in.important
    /\ d_out[4].field = "country_code"
    /\ d_out[4].name.col = The(d_c).availables[2]
    /\ d_out[5].name.col = The(d_c).availables[1]

(***************************************************************************)
(* Properties of the exact stage                                           *)
(***************************************************************************)
\* the calls of the exact stage
ExactCalls == {i \in 1..Len(calls) : calls[i].stage = "exact"}

\* the candidate k is one the exact stage keeps: the string form of its
\* property equals the value, or differs from it when reverse is set
Kept(k) ==
    (Contains(k) /\ StrOf(Get(k, args.exact_property)) = args.exact_value)
        <=> ~args.reverse

\* C14 as stated: the output of the exact stage is the candidates kept, and
\* every row carries the index its key had in the enumeration of the
\* candidates the stage received.
C14_Original ==
    \A i \in ExactCalls :
        LET from == calls[i].from_keys
            out  == calls[i].out
        IN  /\ KeysOf(out) = SelectSeq(from, Kept)
            /\ \A j \in 1..Len(out) :
                  /\ out[j][1] + 1 \in 1..Len(from)
                  /\ from[out[j][1] + 1] = out[j][2]

\* C14 amended: the output of the exact stage is the candidates kept, in
\* candidate order, and every row carries its own zero-based position in that
\* output; the stage leaves exactly these rows in res.
C14_ExactOutput ==
    /\ \A i \in ExactCalls :
          LET from == calls[i].from_keys
              out  == calls[i].out
          IN  /\ KeysOf(out) = SelectSeq(from, Kept)
              /\ \A j \in 1..Len(out) : out[j][1] = j - 1
    /\ pc = "near" /\ ExactCalls # {} => res = calls[Len(calls)].out

\* the exact stage dropped the first candidate it received and kept a later
\* one, which it numbered 0
C14_Witness ==
    /\ pc = "near"
    /\ \E i \in ExactCalls :
          /\ calls[i].out # <<>>
          /\ calls[i].out[1] = <<0, "ORY">>
          /\ calls[i].from_keys[1] = "LHR"
          /\ calls[i].from_keys[3] = "ORY"

(***************************************************************************)
(* Properties of the quiet renderer's field selection                      *)
(***************************************************************************)
InQuiet == d_pc \in {"lines", "returned"} /\ d_in.by = "display_quiet"

\* ['__ref__'] + fields()
AllNames == <<"__ref__">> \o fields

\* the name f followed by @raw is itself a name of the list
HasRaw(f) == \E x \in Range(AllNames) : FieldChars(x) = FieldChars(f) \o RawSuffix

\* C15: in quiet mode with no explicit show list the displayed fields are the
\* names f of ['__ref__'] + fields() for which f + '@raw' is not in that list,
\* minus the omitted fields, in the order of that list; with an explicit show
\* list they are the listed fields that are not omitted, with no suppression.
\* In both cases the header line is '#' followed by the displayed fields
\* joined by '^'.
C15_QuietFieldSelection ==
    InQuiet =>
        /\ d_in.show = <<>> =>
              ShownNames = SelectSeq(AllNames,
                               LAMBDA f : ~HasRaw(f) /\ f \notin d_in.omit)
        /\ d_in.show # <<>> =>
              ShownNames = SelectSeq(d_in.show, LAMBDA f : f \notin d_in.omit)
        /\ d_out[1] = <<35>> \o Join([i \in 1..Len(ShownNames) |->
                                         FieldChars(ShownNames[i])], 94)

\* quiet mode, no show list, nothing omitted: the header names alt@raw and not
\* alt, and result lines were written under it
C15_Witness ==
    /\ InQuiet
    /\ d_pc = "returned"
    /\ d_in.show = <<>>
    /\ d_in.omit = {}
    /\ Len(d_out) > 1
    /\ ShownNames = <<"__ref__", "__key__", "name", "country_code", "elev",
                      "alt@raw", "__dup__">>
    /\ "alt" \in Range(fields)

(***************************************************************************)
(* Properties of post-processing                                           *)
(***************************************************************************)
\* the first n rows of a list: all of it when it has fewer, none when n is
\* not positive
FirstRows(rows, n) == SubSeq(rows, 1, Min(n, Len(rows)))

\* C16: the list handed to the renderer is exactly the first limit rows of
\* the dataset-valid rows of the last executed stage's output (or of the
\* initial enumeration), in that order and with their relevance unchanged;
\* all of them when the limit is disabled. The limit is applied after the
\* unknown keys are dropped, so an unknown key takes none of the limit slots.
C16_LimitAfterDrop ==
    rendered # Nothing =>
        LET l     == The(rendered).list_of_things
            limit == IF args.limit # Nothing THEN args.limit
                     ELSE IF args.quiet THEN Nothing ELSE Some(DEFAULT_NB_COL)
        IN  l = IF limit = Nothing THEN Surviving
                ELSE FirstRows(Surviving, The(limit))

==========================================================================
